---- MODULE Spec2Model ----
(***************************************************************************)
(* Model of app.py: the view-count parser, the per-document record         *)
(* extraction, the aggregation of a batch of uploads, the top-N ranking    *)
(* and the caption word count.                                             *)
(*                                                                         *)
(* Text is modelled by TLA+ strings; Ch(s, i) is the i-th character.       *)
(***************************************************************************)
EXTENDS Integers, Sequences, FiniteSets, TLC

VARIABLES
    views_str,        \* argument of convert_views_to_numeric
    numeric,          \* its outcome: Pending, a returned int, or a raise
    container,        \* one post container handed to the loop body
    item,             \* the rows the loop body appended for it
    uploaded_files,   \* the UploadedFile objects of the upload widget
    file_idx,         \* position of the script's loop over uploaded_files
    all_video_data,   \* rows collected by the current script run
    messages,         \* st.error / st.warning calls of the current run
    df,               \* the DataFrame built from all_video_data
    pc,               \* where the script run is
    runs,             \* number of script runs started
    first_data,       \* all_video_data at the end of the first run
    top_n,            \* the slider's value
    viral_df,         \* df.sort_values(...).head(top_n)
    captions_series,  \* first argument of get_common_topics
    topics_n,         \* its top_n argument
    words,            \* the tokens re.findall returned
    topic_counts      \* the (Topic, Frequency) rows it returns

vars == <<views_str, numeric, container, item, uploaded_files, file_idx,
          all_video_data, messages, df, pc, runs, first_data, top_n, viral_df,
          captions_series, topics_n, words, topic_counts>>

viewVars == <<views_str, numeric>>

itemVars == <<container, item>>

scriptVars == <<uploaded_files, file_idx, all_video_data, messages, df, pc,
                runs, first_data>>

rankVars == <<top_n, viral_df>>

topicVars == <<captions_series, topics_n, words, topic_counts>>

(***************************************************************************)
(* Text helpers                                                            *)
(***************************************************************************)
Ch(s, i) == SubSeq(s, i, i)

Contains(s, c) == \E i \in 1..Len(s) : Ch(s, i) = c

RECURSIVE Remove(_, _)
\* str.replace(c, ''): every occurrence of the character c is dropped
Remove(s, c) ==
    IF s = "" THEN ""
    ELSE IF Head(s) = c THEN Remove(Tail(s), c)
    ELSE Head(s) \o Remove(Tail(s), c)

\* the characters str.strip() removes, among those the model's inputs use
Whitespace == {" "}

RECURSIVE LStrip(_)
LStrip(s) ==
    IF s # "" /\ Head(s) \in Whitespace THEN LStrip(Tail(s)) ELSE s

RECURSIVE RStrip(_)
RStrip(s) ==
    IF s # "" /\ Ch(s, Len(s)) \in Whitespace
    THEN RStrip(SubSeq(s, 1, Len(s) - 1)) ELSE s

Strip(s) == RStrip(LStrip(s))

DigitChars == {"0", "1", "2", "3", "4", "5", "6", "7", "8", "9"}

DigitVal(c) ==
    CASE c = "0" -> 0 [] c = "1" -> 1 [] c = "2" -> 2 [] c = "3" -> 3
      [] c = "4" -> 4 [] c = "5" -> 5 [] c = "6" -> 6 [] c = "7" -> 7
      [] c = "8" -> 8 [] c = "9" -> 9

AllDigits(s) == \A i \in 1..Len(s) : Ch(s, i) \in DigitChars

RECURSIVE DigitsVal(_)
\* the value of a string of decimal digits ("" is 0)
DigitsVal(s) ==
    IF s = "" THEN 0
    ELSE 10 * DigitsVal(SubSeq(s, 1, Len(s) - 1)) + DigitVal(Ch(s, Len(s)))

RECURSIVE Pow10(_)
Pow10(k) == IF k = 0 THEN 1 ELSE 10 * Pow10(k - 1)

\* str.lower() on one character (only ASCII letters have a lower case here)
LowerCh(c) ==
    CASE c = "A" -> "a" [] c = "B" -> "b" [] c = "C" -> "c"
      [] c = "D" -> "d" [] c = "E" -> "e" [] c = "F" -> "f"
      [] c = "G" -> "g" [] c = "H" -> "h" [] c = "I" -> "i"
      [] c = "J" -> "j" [] c = "K" -> "k" [] c = "L" -> "l"
      [] c = "M" -> "m" [] c = "N" -> "n" [] c = "O" -> "o"
      [] c = "P" -> "p" [] c = "Q" -> "q" [] c = "R" -> "r"
      [] c = "S" -> "s" [] c = "T" -> "t" [] c = "U" -> "u"
      [] c = "V" -> "v" [] c = "W" -> "w" [] c = "X" -> "x"
      [] c = "Y" -> "y" [] c = "Z" -> "z"
      [] OTHER -> c

RECURSIVE Lower(_)
Lower(s) == IF s = "" THEN "" ELSE LowerCh(Head(s)) \o Lower(Tail(s))

(***************************************************************************)
(* Binary floating point (Python float: IEEE 754 double, round to nearest, *)
(* ties to even).  A positive double is [bits, exp]: 53 significand bits,  *)
(* most significant first, bits[1] = 1, standing for 0.b1 b2 ... b53 *     *)
(* 2^exp.                                                                  *)
(***************************************************************************)
Precision == 53

RECURSIVE IntBits(_)
\* the binary digits of a natural number, most significant first (0 is <<>>)
IntBits(n) == IF n = 0 THEN <<>> ELSE Append(IntBits(n \div 2), n % 2)

RECURSIVE BitsVal(_)
BitsVal(b) ==
    IF b = <<>> THEN 0
    ELSE 2 * BitsVal(SubSeq(b, 1, Len(b) - 1)) + b[Len(b)]

RECURSIVE Increment(_)
\* b + 1 on a bit sequence of fixed length; all ones wraps to all zeros
Increment(b) ==
    IF b = <<>> THEN <<>>
    ELSE IF b[Len(b)] = 0 THEN [b EXCEPT ![Len(b)] = 1]
    ELSE Append(Increment(SubSeq(b, 1, Len(b) - 1)), 0)

\* round to nearest even: kept are the first 53 bits, guard the 54th,
\* sticky whether anything non-zero follows
RoundNearestEven(kept, exp, guard, sticky) ==
    IF guard = 1 /\ (sticky \/ kept[Precision] = 1)
    THEN LET up == Increment(kept)
         IN  IF up[1] = 1 THEN [bits |-> up, exp |-> exp]
             ELSE [bits |-> [up EXCEPT ![1] = 1], exp |-> exp + 1]
    ELSE [bits |-> kept, exp |-> exp]

RECURSIVE FracBits(_, _, _, _)
\* binary expansion of rem/den (rem < den) appended to acc until 53
\* significant bits are there, then rounded; exp drops for each leading zero
FracBits(rem, den, acc, exp) ==
    LET bit  == IF 2 * rem >= den THEN 1 ELSE 0
        rem2 == 2 * rem - bit * den
    IN  IF Len(acc) = Precision
        THEN RoundNearestEven(acc, exp, bit, rem2 # 0)
        ELSE IF acc = <<>> /\ bit = 0
        THEN FracBits(rem2, den, acc, exp - 1)
        ELSE FracBits(rem2, den, Append(acc, bit), exp)

\* float("<digits>.<digits>") for num / den > 0: the nearest double
NearestDouble(num, den) ==
    LET ip == IntBits(num \div den)
    IN  IF Len(ip) > Precision
        THEN RoundNearestEven(SubSeq(ip, 1, Precision), Len(ip),
                 ip[Precision + 1],
                 (\E i \in (Precision + 2)..Len(ip) : ip[i] = 1)
                     \/ num % den # 0)
        ELSE FracBits(num % den, den, ip, Len(ip))

RECURSIVE MulBits(_, _, _, _)
\* (the first i bits of b) * m + c: the multiplication runs from the least
\* significant bit, t \div 2 is the carry into the next one
MulBits(b, i, m, c) ==
    IF i = 0 THEN IntBits(c)
    ELSE LET t == b[i] * m + c
         IN  IF t % 2 = 0
             THEN Append(MulBits(b, i - 1, m, t \div 2), 0)
             ELSE Append(MulBits(b, i - 1, m, t \div 2), 1)

\* x * m for a positive double x and an integer m >= 1, rounded to a double
FloatTimes(x, m) ==
    LET p == MulBits(x.bits, Precision, m, 0)
        L == Len(p)
    IN  IF L = Precision THEN [bits |-> p, exp |-> x.exp]
        ELSE RoundNearestEven(SubSeq(p, 1, Precision), x.exp + L - Precision,
                 p[Precision + 1],
                 \E i \in (Precision + 2)..L : p[i] = 1)

\* int(x) for a positive double x: the integer part (truncation)
FloatToInt(x) ==
    IF x.exp <= 0 THEN 0
    ELSE IF x.exp <= Precision THEN BitsVal(SubSeq(x.bits, 1, x.exp))
    ELSE BitsVal(x.bits \o [i \in 1..(x.exp - Precision) |-> 0])

(***************************************************************************)
(* convert_views_to_numeric (app.py 18-31)                                 *)
(***************************************************************************)
Pending == [status |-> "pending", value |-> 0, exc |-> ""]

Returned(n) == [status |-> "returned", value |-> n, exc |-> ""]

Raised(e) == [status |-> "raised", value |-> 0, exc |-> e]

SignChars == {"-", "+"}

Unsigned(s) == IF s # "" /\ Head(s) \in SignChars THEN Tail(s) ELSE s

IsNegative(s) == s # "" /\ Head(s) = "-"

\* the position of the first "." of s, or Len(s) + 1
PointAt(s) ==
    IF Contains(s, ".")
    THEN CHOOSE i \in 1..Len(s) :
             Ch(s, i) = "." /\ \A j \in 1..(i - 1) : Ch(s, j) # "."
    ELSE Len(s) + 1

\* float(t): whitespace around the literal is ignored; the literal is a
\* sign, then inf, infinity or nan in any case, or digits with at most one
\* point and at least one digit.  Anything else is a ValueError.
ParseFloat(t) ==
    LET u    == Strip(t)
        body == Unsigned(u)
        low  == Lower(body)
        p    == PointAt(body)
        ip   == SubSeq(body, 1, p - 1)
        fp   == SubSeq(body, p + 1, Len(body))
    IN  IF low \in {"inf", "infinity"}
        THEN [kind |-> "inf", neg |-> IsNegative(u), num |-> 0, den |-> 1]
        ELSE IF low = "nan"
        THEN [kind |-> "nan", neg |-> IsNegative(u), num |-> 0, den |-> 1]
        ELSE IF AllDigits(ip) /\ AllDigits(fp) /\ Len(ip) + Len(fp) >= 1
        THEN [kind |-> "finite", neg |-> IsNegative(u),
              num |-> DigitsVal(ip \o fp), den |-> Pow10(Len(fp))]
        ELSE [kind |-> "ValueError", neg |-> FALSE, num |-> 0, den |-> 1]

\* int(float(t) * mult) inside the try block: a ValueError (from float(),
\* or from int() of a NaN) is caught and gives 0; int() of an infinity
\* raises OverflowError, which the except clause does not catch
ScaledFloat(t, mult) ==
    LET f == ParseFloat(t)
    IN  CASE f.kind = "ValueError" -> Returned(0)
          [] f.kind = "nan" -> Returned(0)
          [] f.kind = "inf" -> Raised("OverflowError")
          [] f.kind = "finite" ->
                IF f.num = 0 THEN Returned(0)
                ELSE LET mag == FloatToInt(
                                    FloatTimes(NearestDouble(f.num, f.den), mult))
                     IN  Returned(IF f.neg THEN -mag ELSE mag)

\* int(s): a sign and at least one digit; anything else is the ValueError
\* the except clause turns into 0
ParseInt(s) ==
    LET body == Unsigned(s)
    IN  IF body # "" /\ AllDigits(body)
        THEN Returned(IF IsNegative(s) THEN -DigitsVal(body) ELSE DigitsVal(body))
        ELSE Returned(0)

KMultiplier == 1000

MMultiplier == 1000000

convert_views_to_numeric(raw) ==
    LET s == Strip(raw)
    IN  IF Contains(s, "K") THEN ScaledFloat(Remove(s, "K"), KMultiplier)
        ELSE IF Contains(s, "M") THEN ScaledFloat(Remove(s, "M"), MMultiplier)
        ELSE ParseInt(s)

(***************************************************************************)
(* The loop body of parse_html_file (app.py 52-78)                         *)
(*                                                                         *)
(* A post container is what the three find() calls see of it: its first    *)
(* <a> (absent, without href, or with one), its first views marker, its    *)
(* first <img> (absent, without alt, or with one), and whether handling it *)
(* raises (fault is the exception's text, "" for none).                    *)
(***************************************************************************)
NA == "N/A"

PARSE_ERROR == "PARSE_ERROR"

RECURSIVE Split(_, _)
\* str.split(sep) for a one-character separator: never an empty list
Split(s, sep) ==
    IF ~Contains(s, sep) THEN <<s>>
    ELSE LET i == CHOOSE k \in 1..Len(s) :
                      Ch(s, k) = sep /\ \A j \in 1..(k - 1) : Ch(s, j) # sep
         IN  <<SubSeq(s, 1, i - 1)>> \o Split(SubSeq(s, i + 1, Len(s)), sep)

StartsWith(s, c) == s # "" /\ Head(s) = c

\* the link read without the guard of line 55: a missing anchor or href
\* ends in the except clause
VideoLinkUnguarded(c) == IF c.anchor = "href" THEN c.href ELSE PARSE_ERROR

\* lines 54-55
VideoLink(c) == IF c.anchor = "href" THEN c.href ELSE NA

\* the handle taken one segment early
ProfileNameThird(video_link) ==
    IF video_link # NA
    THEN LET parts == Split(video_link, "/")
         IN  IF Len(parts) > 2 /\ StartsWith(parts[3], "@")
             THEN parts[3] ELSE NA
    ELSE NA

\* lines 58-66; parts[3] is the fourth segment (Python counts from 0)
ProfileName(video_link) ==
    IF video_link # NA
    THEN LET parts == Split(video_link, "/")
         IN  IF Len(parts) > 3 /\ StartsWith(parts[4], "@")
             THEN parts[4] ELSE NA
    ELSE NA

\* lines 68-69
ViewsText(c) == IF c.views_tag = "present" THEN c.views_text ELSE "0"

\* lines 71-72
Caption(c) == IF c.img = "alt" THEN c.alt ELSE NA

\* one iteration of the loop: the row appended to video_data
ParseItem(c) ==
    IF c.fault = ""
    THEN <<VideoLink(c), ProfileName(VideoLink(c)), ViewsText(c), Caption(c)>>
    ELSE <<PARSE_ERROR, NA, NA, c.fault>>

Container(anchor, href, views_tag, views_text, img, alt, fault) ==
    [anchor |-> anchor, href |-> href, views_tag |-> views_tag,
     views_text |-> views_text, img |-> img, alt |-> alt, fault |-> fault]

(***************************************************************************)
(* parse_html_file (app.py 33-80) and the script's loop (app.py 197-211)   *)
(*                                                                         *)
(* An uploaded file is a stream: read() returns what lies after the        *)
(* cursor and leaves the cursor at the end.  Its bytes either decode to a  *)
(* document, given by its post containers in order, or do not decode.      *)
(***************************************************************************)
Message(kind, name) == [kind |-> kind, file |-> name]

\* uploaded_file.read(): nothing is left once the stream was read
ReadDocument(f) ==
    IF f.consumed THEN [decodable |-> TRUE, containers |-> <<>>] ELSE f.doc

\* the loop without a try of its own: the first failing container ends it
parse_html_file_abort(f) ==
    LET doc == ReadDocument(f)
        cs  == doc.containers
        bad == {i \in 1..Len(cs) : cs[i].fault # ""}
        ok  == IF bad = {} THEN Len(cs)
               ELSE (CHOOSE i \in bad : \A j \in bad : i <= j) - 1
    IN  IF ~doc.decodable
        THEN [data |-> <<>>, msgs |-> <<Message("read_error", f.name)>>]
        ELSE IF cs = <<>>
        THEN [data |-> <<>>, msgs |-> <<Message("no_posts", f.name)>>]
        ELSE [data |-> [i \in 1..ok |-> ParseItem(cs[i])],
              msgs |-> IF bad = {} THEN <<>>
                       ELSE <<Message("item_error", f.name)>>]

parse_html_file(f) ==
    LET doc == ReadDocument(f)
        cs  == doc.containers
        bad == {i \in 1..Len(cs) : cs[i].fault # ""}
    IN  IF ~doc.decodable
        THEN [data |-> <<>>, msgs |-> <<Message("read_error", f.name)>>]
        ELSE IF cs = <<>>
        THEN [data |-> <<>>, msgs |-> <<Message("no_posts", f.name)>>]
        ELSE [data |-> [i \in 1..Len(cs) |-> ParseItem(cs[i])],
              msgs |-> [i \in 1..Cardinality(bad) |->
                           Message("item_error", f.name)]]

\* lines 209-211: the table with its 'Numeric Views' column; idx is the
\* row label (a RangeIndex starting at 0)
Row(i, rec, n) ==
    [idx |-> i, link |-> rec[1], profile |-> rec[2], views |-> rec[3],
     numeric_views |-> n, caption |-> rec[4]]

DataFrame(data) ==
    [i \in 1..Len(data) |->
        Row(i - 1, data[i], convert_views_to_numeric(data[i][3]).value)]

ConversionRaises(data) ==
    \E i \in 1..Len(data) :
        convert_views_to_numeric(data[i][3]).status = "raised"

(***************************************************************************)
(* Inputs of the parser                                                    *)
(***************************************************************************)
MaxViewLen == 4

ViewAlphabet == {"0", "1", ".", "-", "K", "M", "k", " "}

RECURSIVE Strings(_, _)
\* every string over the alphabet of length at most n
Strings(alphabet, n) ==
    IF n = 0 THEN {""}
    ELSE LET shorter == Strings(alphabet, n - 1)
         IN  shorter \cup {s \o c : s \in shorter, c \in alphabet}

ViewExamples ==
    {"33.8K", "795.7M", "1234", "", "abc", "N/A", "0", "4.1M", "32.3K",
     "8.2M", "-5K", "-1", "infK", "-InfM", "nanK", "5 K", "1KM", "1MK",
     "2k", "3m", "1K2K", "+7"}

ViewInputs == Strings(ViewAlphabet, MaxViewLen) \cup ViewExamples

IdleViews == views_str = "" /\ numeric = Pending

IdleItem ==
    /\ container = Container("absent", "", "absent", "", "absent", "", "")
    /\ item = <<>>

IdleScript ==
    /\ uploaded_files = <<>>
    /\ file_idx = 1
    /\ all_video_data = <<>>
    /\ messages = <<>>
    /\ df = <<>>
    /\ pc = "idle"
    /\ runs = 0
    /\ first_data = <<>>

IdleRank == top_n = 0 /\ viral_df = <<>>

IdleTopics ==
    /\ captions_series = <<>>
    /\ topics_n = 0
    /\ words = <<>>
    /\ topic_counts = <<>>

InitViews ==
    /\ views_str \in ViewInputs
    /\ numeric = Pending
    /\ IdleItem
    /\ IdleScript
    /\ IdleRank
    /\ IdleTopics

\* one call of convert_views_to_numeric
Convert ==
    /\ numeric.status = "pending"
    /\ numeric' = convert_views_to_numeric(views_str)
    /\ UNCHANGED <<views_str, itemVars, scriptVars, rankVars, topicVars>>

NextViews == Convert

SpecViews == InitViews /\ [][NextViews]_vars

(***************************************************************************)
(* One post container through the loop body                                *)
(***************************************************************************)
MaxLinkLen == 5

\* "x" stands for any character other than "/" and "@"
LinkAlphabet == {"/", "@", "x"}

WellFormedLink == "https://www.tiktok.com/@profilename/video/7569256496945548575"

LinkExamples ==
    {WellFormedLink, "https://site/@handle/video/1", "http://site/@h",
     "https://site/handle/video/1", "https://site/video/@handle/1",
     "/@handle/video/1", "site/@handle/video/1", NA, "https://site/@"}

Links == Strings(LinkAlphabet, MaxLinkLen) \cup LinkExamples

ContainerInputs ==
    {Container("href", l, "present", "33.8K", "alt", "my dog", "") : l \in Links}
        \cup {Container(a, "", "present", "33.8K", "alt", "my dog", "") :
                 a \in {"absent", "nohref"}}

InitContainer ==
    /\ container \in ContainerInputs
    /\ item = <<>>
    /\ IdleViews
    /\ IdleScript
    /\ IdleRank
    /\ IdleTopics

\* one iteration of the loop over video_containers
ExtractItem ==
    /\ item = <<>>
    /\ item' = Append(item, ParseItem(container))
    /\ UNCHANGED <<container, viewVars, scriptVars, rankVars, topicVars>>

NextContainer == ExtractItem

SpecContainer == InitContainer /\ [][NextContainer]_vars

(***************************************************************************)
(* The script run over the uploaded files                                  *)
(***************************************************************************)
MaxContainers == 3

MaxFiles == 2

MaxRuns == 2

GoodItem == Container("href", WellFormedLink, "present", "33.8K", "alt", "my dog", "")

OtherItem ==
    Container("href", "https://site/@handle/video/1", "present", "1234", "alt",
              "the best dog", "")

PlainItem ==
    Container("href", "https://site/@other/video/2", "present", "12", "alt",
              "cat", "")

NoAnchorItem == Container("absent", "", "present", "4.1M", "alt", "a cat", "")

NoHrefItem == Container("nohref", "", "present", "795.7M", "alt", "cat", "")

NoViewsItem == Container("href", "https://site/video", "absent", "", "alt", "dog", "")

NoImgItem == Container("href", WellFormedLink, "present", "12", "absent", "", "")

NoAltItem == Container("href", WellFormedLink, "present", "7", "noalt", "", "")

FaultyItem ==
    Container("href", WellFormedLink, "present", "5K", "alt", "lost", "boom")

DocItems ==
    {GoodItem, NoAnchorItem, NoHrefItem, NoViewsItem, NoImgItem, NoAltItem,
     FaultyItem}

BatchItems == {OtherItem, PlainItem}

RECURSIVE SeqsUpTo(_, _)
\* every sequence over S of length at most n
SeqsUpTo(S, n) ==
    IF n = 0 THEN {<<>>}
    ELSE LET shorter == SeqsUpTo(S, n - 1)
         IN  shorter \cup {Append(q, x) : q \in shorter, x \in S}

Undecodable == [decodable |-> FALSE, containers |-> <<>>]

Documents(items) ==
    {[decodable |-> TRUE, containers |-> cs] : cs \in SeqsUpTo(items, MaxContainers)}
        \cup {Undecodable}

FileName(i) == IF i = 1 THEN "a.html" ELSE IF i = 2 THEN "b.html"
               ELSE IF i = 3 THEN "c.html" ELSE "d.html"

\* the upload widget's files, each a fresh stream
Uploads(items, n) ==
    {[i \in 1..Len(docs) |->
         [name |-> FileName(i), doc |-> docs[i], consumed |-> FALSE]] :
     docs \in SeqsUpTo(Documents(items), n)}

StartOfRun ==
    /\ file_idx = 1
    /\ all_video_data = <<>>
    /\ messages = <<>>
    /\ df = <<>>
    /\ pc = "loop"
    /\ runs = 1
    /\ first_data = <<>>
    /\ IdleViews
    /\ IdleItem
    /\ IdleRank
    /\ IdleTopics

InitDocument ==
    /\ uploaded_files \in Uploads(DocItems, 1)
    /\ StartOfRun

InitBatch ==
    /\ uploaded_files \in Uploads(BatchItems, MaxFiles)
    /\ StartOfRun

\* the loop with "all_video_data = data" for "all_video_data.extend(data)"
ProcessFileAssign ==
    /\ pc = "loop"
    /\ file_idx <= Len(uploaded_files)
    /\ LET parsed == parse_html_file(uploaded_files[file_idx])
       IN  /\ all_video_data' = parsed.data
           /\ messages' = messages \o parsed.msgs
    /\ uploaded_files' = [uploaded_files EXCEPT ![file_idx].consumed = TRUE]
    /\ file_idx' = file_idx + 1
    /\ UNCHANGED <<df, pc, runs, first_data, viewVars, itemVars, rankVars,
                   topicVars>>

\* one iteration of "for file in uploaded_files" (lines 200-203)
ProcessFile ==
    /\ pc = "loop"
    /\ file_idx <= Len(uploaded_files)
    /\ LET parsed == parse_html_file(uploaded_files[file_idx])
       IN  /\ all_video_data' = all_video_data \o parsed.data
           /\ messages' = messages \o parsed.msgs
    /\ uploaded_files' = [uploaded_files EXCEPT ![file_idx].consumed = TRUE]
    /\ file_idx' = file_idx + 1
    /\ UNCHANGED <<df, pc, runs, first_data, viewVars, itemVars, rankVars,
                   topicVars>>

\* after the loop (lines 205-211, 359-362): the table, or the warning that
\* nothing was extracted; an exception of the conversion ends the run
BuildTable ==
    /\ pc = "loop"
    /\ file_idx > Len(uploaded_files)
    /\ IF all_video_data # <<>> /\ ConversionRaises(all_video_data)
       THEN pc' = "crashed" /\ UNCHANGED <<df, messages>>
       ELSE /\ pc' = "done"
            /\ df' = DataFrame(all_video_data)
            /\ messages' = IF uploaded_files # <<>> /\ all_video_data = <<>>
                           THEN Append(messages, Message("no_data", ""))
                           ELSE messages
    /\ first_data' = IF runs = 1 THEN all_video_data ELSE first_data
    /\ UNCHANGED <<uploaded_files, file_idx, all_video_data, runs, viewVars,
                   itemVars, rankVars, topicVars>>

Rewound(files) == [i \in 1..Len(files) |-> [files[i] EXCEPT !.consumed = FALSE]]

\* a widget interaction reruns the script from the top over the same upload
\* set.  The script never rewinds a file, so what the next run reads depends
\* on the widget: the same stream objects (cursor where read() left it) or
\* streams positioned at the start.
Rerun ==
    /\ pc \in {"done", "crashed"}
    /\ runs < MaxRuns
    /\ \E fresh \in BOOLEAN :
           uploaded_files' = IF fresh THEN Rewound(uploaded_files)
                             ELSE uploaded_files
    /\ file_idx' = 1
    /\ all_video_data' = <<>>
    /\ messages' = <<>>
    /\ df' = <<>>
    /\ pc' = "loop"
    /\ runs' = runs + 1
    /\ UNCHANGED <<first_data, viewVars, itemVars, rankVars, topicVars>>

NextRun == ProcessFile \/ BuildTable

NextRerun == ProcessFile \/ BuildTable \/ Rerun

SpecDocument == InitDocument /\ [][NextRun]_vars

SpecBatch == InitBatch /\ [][NextRun]_vars

SpecRerun == InitBatch /\ [][NextRerun]_vars

(***************************************************************************)
(* Ranking (app.py 238-244)                                                *)
(***************************************************************************)
SliderMin == 5

SliderCap == 100

SliderDefault == 20

SliderStep == 5

Min(a, b) == IF a < b THEN a ELSE b

\* the values st.slider can return for a table of n rows: its default
\* value, and the steps from min_value up to max_value
SliderValues(n) ==
    {Min(SliderDefault, n)}
        \cup {v \in SliderMin..Min(SliderCap, n) : (v - SliderMin) % SliderStep = 0}

RowsOf(t) == {t[i] : i \in 1..Len(t)}

RECURSIVE DescendingOrders(_)
\* sort_values(by='Numeric Views', ascending=False) with the default
\* kind='quicksort', which is not a stable sort: every arrangement of the
\* rows with non-increasing 'Numeric Views' is a possible result
DescendingOrders(rows) ==
    IF rows = {} THEN {<<>>}
    ELSE LET top == {r \in rows : \A q \in rows : q.numeric_views <= r.numeric_views}
         IN  UNION {{<<r>> \o rest : rest \in DescendingOrders(rows \ {r})} :
                        r \in top}

\* DataFrame.head(n)
HeadRows(t, n) == SubSeq(t, 1, Min(n, Len(t)))

\* the slider and the ranking of one script run
Rank ==
    /\ pc = "done"
    /\ df # <<>>
    /\ \E n \in SliderValues(Len(df)), sorted \in DescendingOrders(RowsOf(df)) :
           /\ top_n' = n
           /\ viral_df' = HeadRows(sorted, n)
    /\ pc' = "ranked"
    /\ UNCHANGED <<uploaded_files, file_idx, all_video_data, messages, df, runs,
                   first_data, viewVars, itemVars, topicVars>>

(***************************************************************************)
(* get_common_topics (app.py 151-181)                                      *)
(***************************************************************************)
stop_words ==
    {"a", "an", "the", "is", "in", "of", "to", "by", "with", "and", "created",
     "original", "sound", "s", "t", "m", "for", "on", "it", "its", "this",
     "that", "be", "at", "my", "you", "your", "https", "www", "tiktok",
     "com", "video", "i", "me", "he", "she", "they", "we", "are", "was", "were",
     "not", "but", "so", "up", "out", "if", "all", "new", "get", "just", "like"}

DefaultTopN == 20

MinWordLen == 2

AsciiLower ==
    {"a", "b", "c", "d", "e", "f", "g", "h", "i", "j", "k", "l", "m", "n", "o",
     "p", "q", "r", "s", "t", "u", "v", "w", "x", "y", "z"}

AsciiUpper ==
    {"A", "B", "C", "D", "E", "F", "G", "H", "I", "J", "K", "L", "M", "N", "O",
     "P", "Q", "R", "S", "T", "U", "V", "W", "X", "Y", "Z"}

\* the class [a-zA-Z0-9]
AsciiAlnum == AsciiLower \cup AsciiUpper \cup DigitChars

\* non-ASCII letters of the model's captions
OtherLetters == {"é"}

\* \w of a str pattern: Unicode letters and digits, and the underscore
WordChars == AsciiAlnum \cup OtherLetters \cup {"_"}

\* \b at the gap before position i (1..Len(t)+1): a word character on
\* exactly one side
WordBoundary(t, i) ==
    LET before == i > 1 /\ Ch(t, i - 1) \in WordChars
        after  == i <= Len(t) /\ Ch(t, i) \in WordChars
    IN  before # after

RECURSIVE FindAll(_, _)
\* re.findall(r'\b[a-zA-Z0-9]+\b', t) from position i on: a match starts at
\* a \b, takes characters of the class greedily and gives back until a \b
\* follows; a position with no match is skipped
FindAll(t, i) ==
    IF i > Len(t) THEN <<>>
    ELSE LET run  == {j \in i..Len(t) : \A k \in i..j : Ch(t, k) \in AsciiAlnum}
             ends == {j \in run : WordBoundary(t, j + 1)}
             last == CHOOSE j \in ends : \A k \in ends : k <= j
         IN  IF WordBoundary(t, i) /\ ends # {}
             THEN <<SubSeq(t, i, last)>> \o FindAll(t, last + 1)
             ELSE FindAll(t, i + 1)

RECURSIVE JoinSpace(_)
\* ' '.join(series)
JoinSpace(series) ==
    IF series = <<>> THEN ""
    ELSE IF Len(series) = 1 THEN series[1]
    ELSE series[1] \o " " \o JoinSpace(Tail(series))

\* lines 164-167
Tokens(series) == FindAll(Lower(JoinSpace(series)), 1)

\* the length test as "len(word) >= 2"
KeepTwoLetters(word) == word \notin stop_words /\ Len(word) >= MinWordLen

\* lines 170-173
Keep(word) == word \notin stop_words /\ Len(word) > MinWordLen

filtered_words(ws) == SelectSeq(ws, Keep)

Occurrences(ws, w) == Cardinality({i \in 1..Len(ws) : ws[i] = w})

FirstAt(ws, w) == CHOOSE i \in 1..Len(ws) : ws[i] = w /\ \A j \in 1..(i - 1) : ws[j] # w

\* Counter(ws): one entry per distinct word, in the order of first
\* occurrence (a dict keeps insertion order)
Counter(ws) ==
    LET firsts == SelectSeq([i \in 1..Len(ws) |-> [w |-> ws[i], at |-> i]],
                            LAMBDA e : FirstAt(ws, e.w) = e.at)
    IN  [k \in 1..Len(firsts) |-> <<firsts[k].w, Occurrences(ws, firsts[k].w)>>]

RECURSIVE SortedByCount(_)
\* sorted(items, key=count, reverse=True): stable, so equal counts keep
\* the order of the entries
SortedByCount(entries) ==
    IF entries = <<>> THEN <<>>
    ELSE LET best == CHOOSE i \in 1..Len(entries) :
                        /\ \A j \in 1..Len(entries) : entries[j][2] <= entries[i][2]
                        /\ \A j \in 1..(i - 1) : entries[j][2] < entries[i][2]
             rest == [k \in 1..(Len(entries) - 1) |->
                         IF k < best THEN entries[k] ELSE entries[k + 1]]
         IN  <<entries[best]>> \o SortedByCount(rest)

\* Counter.most_common(n)
most_common(entries, n) == SubSeq(SortedByCount(entries), 1, Min(n, Len(entries)))

get_common_topics(series, n) == most_common(Counter(filtered_words(Tokens(series))), n)

\* the topic chart of one script run (line 269)
ShowTopics ==
    /\ pc = "ranked"
    /\ captions_series' = [i \in 1..Len(viral_df) |-> viral_df[i].caption]
    /\ topics_n' = DefaultTopN
    /\ words' = Tokens(captions_series')
    /\ topic_counts' = get_common_topics(captions_series', DefaultTopN)
    /\ pc' = "shown"
    /\ UNCHANGED <<uploaded_files, file_idx, all_video_data, messages, df, runs,
                   first_data, viewVars, itemVars, rankVars>>

NextRank == ProcessFile \/ BuildTable \/ Rank \/ ShowTopics

RankItems ==
    {Container("href", "https://site/@handle/video/1", "present", v, "alt",
               "my dog", "") : v \in {"30", "50", "100"}}

InitRank ==
    /\ uploaded_files \in Uploads(RankItems, MaxFiles)
    /\ StartOfRun

SpecRank == InitRank /\ [][NextRank]_vars

(***************************************************************************)
(* get_common_topics on its own                                            *)
(***************************************************************************)
MaxWords == 4

Vocabulary == {"dog", "cat", "owl", "the", "ox"}

RECURSIVE SeriesOfWords(_)
\* every series of captions made of at most n words of the vocabulary,
\* the words of a caption separated by one space
SeriesOfWords(n) ==
    IF n = 0 THEN {<<>>}
    ELSE LET fewer == SeriesOfWords(n - 1)
         IN  fewer
             \cup {Append(q, w) : q \in fewer, w \in Vocabulary}
             \cup {[q EXCEPT ![Len(q)] = @ \o " " \o w] :
                      q \in fewer \ {<<>>}, w \in Vocabulary}

TopicExample == <<"I love my new dog", "My dog is the best dog">>

TopicCalls ==
    (SeriesOfWords(MaxWords) \X {1, 2, DefaultTopN}) \cup {<<TopicExample, 5>>}

InitTopics ==
    /\ \E call \in TopicCalls :
           captions_series = call[1] /\ topics_n = call[2]
    /\ words = <<>>
    /\ topic_counts = <<>>
    /\ pc = "call"
    /\ uploaded_files = <<>>
    /\ file_idx = 1
    /\ all_video_data = <<>>
    /\ messages = <<>>
    /\ df = <<>>
    /\ runs = 0
    /\ first_data = <<>>
    /\ IdleViews
    /\ IdleItem
    /\ IdleRank

\* one call of get_common_topics
GetCommonTopics ==
    /\ pc = "call"
    /\ words' = Tokens(captions_series)
    /\ topic_counts' = get_common_topics(captions_series, topics_n)
    /\ pc' = "returned"
    /\ UNCHANGED <<captions_series, topics_n, uploaded_files, file_idx,
                   all_video_data, messages, df, runs, first_data, viewVars,
                   itemVars, rankVars>>

NextTopics == GetCommonTopics

SpecTopics == InitTopics /\ [][NextTopics]_vars

MaxCaptionLen == 3

CaptionAlphabet == {"a", "B", "1", " ", "_", "é"}

TokenCalls ==
    {<<c>> : c \in Strings(CaptionAlphabet, MaxCaptionLen)}
        \cup {<<c, d>> : c, d \in Strings(CaptionAlphabet, MaxCaptionLen - 1)}

InitTokens ==
    /\ captions_series \in TokenCalls
    /\ topics_n = DefaultTopN
    /\ words = <<>>
    /\ topic_counts = <<>>
    /\ pc = "call"
    /\ uploaded_files = <<>>
    /\ file_idx = 1
    /\ all_video_data = <<>>
    /\ messages = <<>>
    /\ df = <<>>
    /\ runs = 0
    /\ first_data = <<>>
    /\ IdleViews
    /\ IdleItem
    /\ IdleRank

SpecTokens == InitTokens /\ [][NextTopics]_vars

(***************************************************************************)
(* Properties                                                              *)
(***************************************************************************)

\* C1: for every input string convert_views_to_numeric returns a
\* non-negative integer and never raises.
C1_ViewsNonNegativeNeverRaises ==
    numeric.status # "pending" =>
        numeric.status = "returned" /\ numeric.value >= 0

\* the number num / den times mult, truncated, in exact arithmetic (den and
\* mult are powers of ten)
ExactScaled(num, den, mult) ==
    IF den <= mult THEN num * (mult \div den) ELSE num \div (den \div mult)

DecimalTimes(t, mult) ==
    LET f   == ParseFloat(t)
        mag == ExactScaled(f.num, f.den, mult)
    IN  IF f.kind = "finite" THEN Returned(IF f.neg THEN -mag ELSE mag)
        ELSE Returned(0)

RulesInOrder(raw) ==
    LET s == Strip(raw)
    IN  IF Contains(s, "K") THEN DecimalTimes(Remove(s, "K"), 1000)
        ELSE IF Contains(s, "M") THEN DecimalTimes(Remove(s, "M"), 1000000)
        ELSE ParseInt(s)

\* C2: on the trimmed input, a string with "K" gives the remainder read as
\* a decimal number times 1,000, truncated toward zero; otherwise a string
\* with "M" the same with 1,000,000; otherwise the string read as an
\* integer ("33.8K" 33800, "795.7M" 795700000, "1234" 1234, "" 0, "abc" 0).
\* Remainders that name an infinity or a NaN are left out.
C2_RulesInOrder ==
    (numeric.status # "pending"
        /\ ParseFloat(Remove(Remove(Strip(views_str), "K"), "M")).kind
               \notin {"inf", "nan"})
    => numeric = RulesInOrder(views_str)

Ranks(r, q) ==
    \/ r.numeric_views > q.numeric_views
    \/ r.numeric_views = q.numeric_views /\ r.idx < q.idx

\* C3: the ranked table is the first min(n, |dataset|) rows of the dataset
\* sorted by numeric views descending, rows with equal views in their
\* original order.
C3_TopByViewsStable ==
    pc \in {"ranked", "shown"} =>
        /\ Len(viral_df) = Min(top_n, Len(df))
        /\ RowsOf(viral_df) \subseteq RowsOf(df)
        /\ \A i, j \in 1..Len(viral_df) : i < j => Ranks(viral_df[i], viral_df[j])
        /\ \A r \in RowsOf(viral_df), q \in RowsOf(df) \ RowsOf(viral_df) :
               Ranks(r, q)

RECURSIVE RecordsOfFirst(_, _)
\* the rows of the containers of the first n files' documents, in order, an
\* undecodable document giving none
RecordsOfFirst(files, n) ==
    IF n = 0 THEN <<>>
    ELSE LET cs == files[n].doc.containers
         IN  RecordsOfFirst(files, n - 1) \o [i \in 1..Len(cs) |-> ParseItem(cs[i])]

ReadErrorsFor(name) ==
    {k \in 1..Len(messages) : messages[k] = Message("read_error", name)}

\* C4: the rows collected so far are the concatenation, in input order, of
\* the rows of the documents processed so far that decode; a document that
\* does not decode adds no row and exactly one message naming it, and the
\* run goes on to the table.
C4_AggregateConcatenates ==
    /\ all_video_data = RecordsOfFirst(uploaded_files, file_idx - 1)
    /\ \A i \in 1..(file_idx - 1) :
           Cardinality(ReadErrorsFor(uploaded_files[i].name))
               = IF uploaded_files[i].doc.decodable THEN 0 ELSE 1
    /\ pc # "crashed"
    /\ pc = "done" => file_idx = Len(uploaded_files) + 1

C4_Witness ==
    /\ pc = "done"
    /\ Len(uploaded_files) = 2
    /\ Len(uploaded_files[1].doc.containers) = 3
    /\ ~uploaded_files[2].doc.decodable
    /\ Len(all_video_data) = 3
    /\ messages = <<Message("read_error", "b.html")>>

\* C5: a document with k post containers gives exactly k rows in container
\* order (none when k = 0); a container whose extraction fails gives a row
\* with link "PARSE_ERROR" and the failure's text as caption, every other
\* container its normally extracted row.
C5_OneRecordPerContainer ==
    (file_idx = 2 /\ uploaded_files[1].doc.decodable) =>
        LET cs == uploaded_files[1].doc.containers
        IN  /\ Len(all_video_data) = Len(cs)
            /\ pc # "crashed"
            /\ \A i \in 1..Len(cs) :
                   IF cs[i].fault # ""
                   THEN /\ all_video_data[i][1] = "PARSE_ERROR"
                        /\ all_video_data[i][4] = cs[i].fault
                   ELSE all_video_data[i] =
                            <<VideoLink(cs[i]), ProfileName(VideoLink(cs[i])),
                              ViewsText(cs[i]), Caption(cs[i])>>

C5_Witness ==
    /\ pc = "done"
    /\ Len(uploaded_files) = 1
    /\ uploaded_files[1].doc.containers = <<GoodItem, FaultyItem, NoViewsItem>>
    /\ Len(all_video_data) = 3
    /\ all_video_data[2][1] = "PARSE_ERROR"
    /\ all_video_data[3][3] = "0"

Slashes(l) == {i \in 1..Len(l) : Ch(l, i) = "/"}

\* the text between the third "/" of l and the next one (or the end)
FourthSegment(l) ==
    LET third == CHOOSE i \in Slashes(l) :
                     Cardinality({j \in Slashes(l) : j < i}) = 2
        after == {j \in Slashes(l) : j > third}
        stop  == IF after = {} THEN Len(l) + 1
                 ELSE CHOOSE j \in after : \A k \in after : j <= k
    IN  SubSeq(l, third + 1, stop - 1)

HasHandle(l) == Cardinality(Slashes(l)) >= 3 /\ StartsWith(FourthSegment(l), "@")

HandleIs(absent) ==
    item # <<>> =>
        /\ container.anchor # "href" => item[1][2] = absent
        /\ (container.anchor = "href" /\ HasHandle(container.href))
               => item[1][2] = FourthSegment(container.href)
        /\ (container.anchor = "href" /\ ~HasHandle(container.href))
               => item[1][2] = absent
        /\ container.href = "https://site/@handle/video/1"
               => item[1][2] = "@handle"

AbsenceIs(absent) ==
    (file_idx = 2 /\ uploaded_files[1].doc.decodable) =>
        LET cs == uploaded_files[1].doc.containers
        IN  /\ Len(all_video_data) = Len(cs)
            /\ \A i \in 1..Len(cs) :
                   cs[i].fault = "" =>
                       /\ all_video_data[i][1] # "PARSE_ERROR"
                       /\ all_video_data[i][1] =
                              IF cs[i].anchor = "href" THEN cs[i].href ELSE absent
                       /\ all_video_data[i][3] =
                              IF cs[i].views_tag = "present" THEN cs[i].views_text
                              ELSE "0"
                       /\ all_video_data[i][4] =
                              IF cs[i].img = "alt" THEN cs[i].alt ELSE absent

Survivors == {w \in RowsOf(words) : w \notin stop_words /\ Len(w) > 2}

FirstSeen(w) == CHOOSE i \in 1..Len(words) : words[i] = w /\ \A j \in 1..(i - 1) : words[j] # w

TimesSeen(w) == Cardinality({i \in 1..Len(words) : words[i] = w})

Before(v, w) ==
    \/ TimesSeen(v) > TimesSeen(w)
    \/ TimesSeen(v) = TimesSeen(w) /\ FirstSeen(v) < FirstSeen(w)

\* C8: the result is the first topN entries of the distinct tokens that are
\* longer than 2 and no stop word, each with its number of occurrences,
\* ordered by count descending, ties by first occurrence; it is empty when
\* no token survives; the two-caption example ranks "dog" with count 3
\* first and has no "my", "is" or "the".
C8_CommonTopics ==
    pc = "returned" =>
        LET listed == {topic_counts[i][1] : i \in 1..Len(topic_counts)}
        IN  /\ Len(topic_counts) = Min(topics_n, Cardinality(Survivors))
            /\ listed \subseteq Survivors
            /\ Cardinality(listed) = Len(topic_counts)
            /\ \A i \in 1..Len(topic_counts) :
                   /\ topic_counts[i][2] = TimesSeen(topic_counts[i][1])
                   /\ topic_counts[i][2] > 0
            /\ \A i, j \in 1..Len(topic_counts) :
                   i < j => Before(topic_counts[i][1], topic_counts[j][1])
            /\ \A v \in listed, w \in Survivors \ listed : Before(v, w)
            /\ captions_series = TopicExample =>
                   /\ topic_counts[1] = <<"dog", 3>>
                   /\ listed \cap {"my", "is", "the"} = {}

C8_Witness ==
    /\ pc = "returned"
    /\ captions_series = <<"owl cat", "dog cat">>
    /\ topics_n = 2
    /\ words = <<"owl", "cat", "dog", "cat">>
    /\ topic_counts = <<<<"cat", 2>>, <<"owl", 1>>>>

RECURSIVE AsciiRuns(_)
\* the maximal runs of ASCII letters and digits of t, in order
AsciiRuns(t) ==
    IF t = "" THEN <<>>
    ELSE IF Head(t) \notin AsciiAlnum THEN AsciiRuns(Tail(t))
    ELSE LET ends == {j \in 1..Len(t) : \A k \in 1..j : Ch(t, k) \in AsciiAlnum}
             last == CHOOSE j \in ends : \A k \in ends : k <= j
         IN  <<SubSeq(t, 1, last)>> \o AsciiRuns(SubSeq(t, last + 1, Len(t)))

RECURSIVE RunsOfEach(_)
RunsOfEach(series) ==
    IF series = <<>> THEN <<>>
    ELSE AsciiRuns(Lower(series[1])) \o RunsOfEach(Tail(series))

\* C10: the tokens counted are exactly the maximal runs of ASCII letters
\* and digits of each lower-cased caption, caption after caption.
C10_TokensAreAsciiRuns ==
    pc = "returned" => words = RunsOfEach(captions_series)
====
